---- MODULE Spec2Model ----
(***************************************************************************)
(* State-machine model of the MANET simulators trusty-manet.py and         *)
(* baseline-manet.py: a global topology NETWORK, one Device per node with  *)
(* a greed and a trust vector, four global counters, and messages that     *)
(* travel by nested forward_msg / receive_msg calls started by the         *)
(* driver loop's produce_msg calls.  One message is in flight at a time    *)
(* (the program is synchronous), so the call chain is a position pc, the   *)
(* device whose method runs (holder) and the message it runs on (cur).     *)
(***************************************************************************)
EXTENDS Integers, Sequences, FiniteSets, TLC

VARIABLES
    variant,      \* which program runs: "trusty" or "baseline"
    nodes,        \* NETWORK.nodes
    edges,        \* NETWORK edges, each an unordered pair {a, b}
    greed,        \* Device.greed of every node, in units of 1/GreedScale
    trust,        \* Device.trust of every node (trusty variant)
    rounds,       \* the bound of the driver's outer loop
    j,            \* driver: outer loop counter (rounds completed)
    i,            \* driver: index of the device whose produce_msg runs next
    PINGS_SENT,
    PINGS_RCVD,
    PONGS_RCVD,
    DROP_COUNT,
    ping,         \* the ping made by the last produce_msg
    pong,         \* the pong made in answer to it, NoMsg until then
    cur,          \* which of the two the running method was given
    holder,       \* the device whose method is running
    pc,           \* "idle", "forward", "receive", "done", "fault"
    ret,          \* value the last forward_msg decided to return
    options,      \* local `options` of the last forward_msg, Unbound if not assigned
    fault,        \* the uncaught exception that ended the program, "none" if none
    draw,         \* what the last step drew from Python's `random` module, NoDraw if nothing
    stats         \* the reliability ratios computed after the run

vars == <<variant, nodes, edges, greed, trust, rounds, j, i,
          PINGS_SENT, PINGS_RCVD, PONGS_RCVD, DROP_COUNT,
          ping, pong, cur, holder, pc, ret, options, fault, draw, stats>>

(***************************************************************************)
(* Bounds of the model.                                                    *)
(***************************************************************************)
\* number of driver rounds explored (the program runs 100)
MaxRounds == 2
\* resolution of probabilities: greed and random.random() are in units of 1/GreedScale
GreedScale == 2
\* longest relay history given to a directly called forward_msg
MaxHist == 2
\* largest ordinary trust score given to the trust-weighted selection
MaxScore == 2

(***************************************************************************)
(* Program constants.                                                      *)
(***************************************************************************)
\* the slack added to the shortest distance to get the path cutoff
Slack == 3
\* the factor turning a ratio into a percentage
Percent == 100
\* float64: exp(x) is inf for x above 709 and 0.0 for x below -745
ExpOverflow == 709
ExpUnderflow == -745
\* the base of exp, rounded to an integer
ExpBase == 3

None == -1
NoPath == -1
Unbound == {<<>>}
NoMsg == [src |-> -1, dst |-> -1, content |-> "none", history |-> <<>>]
Undefined == <<0, 0>>
NoDraw == <<>>

Variants == {"trusty", "baseline"}

Range(s) == {s[k] : k \in 1..Len(s)}

(***************************************************************************)
(* Topologies.  The programs build one fixed 26-node graph; the model runs *)
(* the same construction code on smaller node and edge lists.              *)
(***************************************************************************)
PathGraph == {{0, 1}, {1, 2}}
RingGraph == {{0, 1}, {1, 2}, {2, 3}, {3, 4}, {4, 0}}
DetourGraph == {{0, 1}, {1, 2}, {0, 3}, {3, 4}, {4, 5}, {5, 6}, {6, 1}, {3, 5}}

ScenarioIds == 1..6

NodesOf(s) ==
    CASE s = 1 -> 0..2
      [] s = 2 -> 0..2
      [] s = 3 -> 0..3
      [] s = 4 -> 0..4
      [] s = 5 -> 0..6
      [] s = 6 -> 0..2

EdgesOf(s) ==
    CASE s = 1 -> PathGraph
      [] s = 2 -> PathGraph
      [] s = 3 -> PathGraph
      [] s = 4 -> RingGraph
      [] s = 5 -> DetourGraph
      [] s = 6 -> PathGraph

\* float(i in black_holes): a black hole has greed 1, i.e. GreedScale units
BlackHolesOf(s) ==
    CASE s = 1 -> {}
      [] s = 2 -> {1}
      [] s = 3 -> {}
      [] s = 4 -> {1, 2}
      [] s = 5 -> {}
      [] s = 6 -> {}

\* nodes with an intermediate greed (between never and always selfish)
HalfGreedyOf(s) ==
    CASE s = 4 -> {4}
      [] s = 6 -> {1}
      [] OTHER -> {}

GreedOf(s) ==
    [n \in NodesOf(s) |->
        IF n \in BlackHolesOf(s) THEN GreedScale
        ELSE IF n \in HalfGreedyOf(s) THEN 1 ELSE 0]

(***************************************************************************)
(* Topology queries (networkx).                                            *)
(***************************************************************************)
\* has_edge that treats the graph as directed
HasEdge_directed(a, b) == {a, b} \in edges /\ a < b

HasEdge(a, b) == {a, b} \in edges

Neighbors(a) == {n \in nodes : HasEdge(a, n)}

RECURSIVE BFS(_, _, _, _)
BFS(frontier, seen, target, d) ==
    IF target \in frontier THEN d
    ELSE LET nxt == {n \in nodes : \E f \in frontier : HasEdge(f, n)} \ seen
         IN  IF nxt = {} THEN NoPath
             ELSE BFS(nxt, seen \cup nxt, target, d + 1)

\* nx.shortest_path_length; NoPath stands for the raised NetworkXNoPath
ShortestPathLength(a, b) == BFS({a}, {a}, b, 0)

RECURSIVE Extend(_, _, _)
Extend(path, target, cutoff) ==
    IF path[Len(path)] = target THEN {path}
    ELSE IF Len(path) - 1 >= cutoff THEN {}
    ELSE UNION {Extend(Append(path, n), target, cutoff) :
                    n \in Neighbors(path[Len(path)]) \ Range(path)}

\* nx.all_simple_paths(NETWORK, a, b, cutoff): simple paths of at most cutoff edges
AllSimplePaths(a, b, cutoff) == Extend(<<a>>, b, cutoff)

(***************************************************************************)
(* Message.                                                                *)
(***************************************************************************)
Message(src, dst, content) ==
    [src |-> src, dst |-> dst, content |-> content, history |-> <<>>]

Postmark(m, index) == [m EXCEPT !.history = Append(@, index)]

\* has_cycles_in that compares with the most recent postmark only
HasCyclesIn_last(m, path) ==
    /\ Len(m.history) > 0
    /\ \E k \in 1..Len(path) : path[k] = m.history[Len(m.history)]

\* has_cycles_in that looks at the end of the path only
HasCyclesIn_end(m, path) == path[Len(path)] \in Range(m.history)

HasCyclesIn(m, path) == \E k \in 1..Len(path) : path[k] \in Range(m.history)

msg == IF cur = "pong" THEN pong ELSE ping

(***************************************************************************)
(* Device.                                                                 *)
(***************************************************************************)
\* a cutoff one short of the shortest distance
Cutoff_tight(d, m) == ShortestPathLength(d, m.dst) - 1

\* forward_msg: cutoff = 3 + spl
Cutoff(d, m) == Slack + ShortestPathLength(d, m.dst)

\* forward_msg: options = [p for p in list(paths) if not msg.has_cycles_in(p)]
Options(d, m) ==
    {p \in AllSimplePaths(d, m.dst, Cutoff(d, m)) : ~HasCyclesIn(m, p)}

(***************************************************************************)
(* float64 values, as far as softmax needs them: a finite value is the     *)
(* exact ratio <<numerator, denominator>> with a positive denominator,     *)
(* Inf is what an overflowing exp returns and NaN is Inf / Inf or 0 / 0.   *)
(***************************************************************************)
Inf == <<1, 0>>
NaN == <<0, 0>>
Zero == <<0, 1>>

IsFinite(a) == a[2] > 0
IsPositive(a) == a[1] > 0 /\ a[2] > 0

\* float addition; the operands are bound once (x, y) before they are used
FAdd(a, b) ==
    CHOOSE r \in {IF x = NaN \/ y = NaN THEN NaN
                  ELSE IF x = Inf \/ y = Inf THEN Inf
                  ELSE <<x[1] * y[2] + y[1] * x[2], x[2] * y[2]>> :
                  x \in {a}, y \in {b}} : TRUE

\* float division; the operands are bound once (x, y) before they are used
FDiv(a, b) ==
    CHOOSE r \in {IF x = NaN \/ y = NaN THEN NaN
                  ELSE IF x = Inf THEN (IF y = Inf THEN NaN ELSE Inf)
                  ELSE IF y = Inf THEN Zero
                  ELSE IF y[1] = 0 THEN (IF x[1] = 0 THEN NaN ELSE Inf)
                  ELSE <<x[1] * y[2], x[2] * y[1]>> :
                  x \in {a}, y \in {b}} : TRUE

RECURSIVE Pow(_)
Pow(x) == IF x <= 0 THEN 1 ELSE ExpBase * Pow(x - 1)

\* numpy exp of an integer score: Inf above the largest argument float64
\* can hold, 0 below the smallest, the power of the (rounded) base between
Exp(x) ==
    IF x > ExpOverflow THEN Inf
    ELSE IF x < ExpUnderflow THEN Zero
    ELSE IF x >= 0 THEN <<Pow(x), 1>> ELSE <<1, Pow(-x)>>

RECURSIVE SumOver(_, _)
SumOver(f, S) ==
    IF S = {} THEN Zero
    ELSE LET k == CHOOSE k \in S : TRUE IN FAdd(f[k], SumOver(f, S \ {k}))

\* softmax: exp(ary) / sum(exp(ary))
Softmax(scores) ==
    [k \in DOMAIN scores |->
        FDiv(Exp(scores[k]),
             SumOver([t \in DOMAIN scores |-> Exp(scores[t])], DOMAIN scores))]

\* trusty_next_hop: uniq = list(set(hops))
Uniq(paths) == {p[2] : p \in paths}

\* trusty_next_hop: logits = softmax([self.trust[t] for t in uniq])
TrustyLogits(d, paths) == Softmax([t \in Uniq(paths) |-> trust[d][t]])

\* numpy choice(uniq, 1, p=logits) raises ValueError when p contains NaN
\* or does not sum to 1
ChoiceRaises(p) ==
    \/ \E k \in DOMAIN p : p[k] = NaN
    \/ LET total == SumOver(p, DOMAIN p) IN total[1] # total[2]

\* a selection that always returns the lowest-numbered candidate
TrustyNextHop_min(d, paths) ==
    {t \in Uniq(paths) : \A u \in Uniq(paths) : t <= u}

\* trusty_next_hop: the unique second elements of the paths, scored by
\* self.trust and drawn by numpy choice with p = softmax(scores); a hop can
\* be returned iff its probability is positive
TrustyNextHop(d, paths) ==
    LET uniq   == Uniq(paths)
        logits == TrustyLogits(d, paths)
    IN  {t \in uniq : IsPositive(logits[t])}

\* a selection that takes the first element of the chosen path
BaselineNextHop_self(paths) == {p[1] : p \in paths}

\* baseline forward_msg: choice = random.choice(options); next_hop = choice[1]
BaselineNextHop(paths) == {p[2] : p \in paths}

NextHops(d, paths) ==
    IF variant = "trusty" THEN TrustyNextHop(d, paths) ELSE BaselineNextHop(paths)

\* what the choice of next_hop takes from Python's `random` module: the
\* baseline's random.choice(options) returns one of the paths through
\* next_hop; trusty_next_hop calls numpy.random.choice, a generator of its
\* own, and takes nothing from `random`
RandomChoices(paths, next_hop) ==
    IF variant = "baseline" THEN {p \in paths : p[2] = next_hop} ELSE {NoDraw}

\* greed trial with a strict comparison
ForwardsOnTrial_strict(r, g) == r > g

\* greed trial that is off by one unit
ForwardsOnTrial_offbyone(r, g) == r + 1 >= g

\* receive_msg: random.random() >= self.greed, with r and g in units of 1/GreedScale
ForwardsOnTrial(r, g) == r >= g

\* the values random.random() can return: [0, 1) in units of 1/GreedScale
RandomDraws == 0..(GreedScale - 1)

\* a counter update that adds two
Inc_twice(c) == c + 2

\* the statement `COUNTER += 1` on one of the four global counters
Inc(c) == c + 1

SetMsg(m) ==
    IF cur = "pong" THEN pong' = m /\ UNCHANGED ping
    ELSE ping' = m /\ UNCHANGED pong

TypeOK ==
    /\ variant \in Variants
    /\ pc \in {"idle", "forward", "receive", "done", "fault"}
    /\ cur \in {"none", "ping", "pong"}
    /\ PINGS_SENT \in Nat /\ PINGS_RCVD \in Nat
    /\ PONGS_RCVD \in Nat /\ DROP_COUNT \in Nat

\* Device.__init__: one score per peer, all 1
InitialTrust_one(ns) == [n \in ns |-> [t \in ns |-> 1]]

\* Device.__init__: self.trust = [0] * len(NETWORK.nodes)
InitialTrust(ns) == [n \in ns |-> [t \in ns |-> 0]]

(***************************************************************************)
(* Init: the state after the setup section of the script, before the       *)
(* driver loop.                                                            *)
(***************************************************************************)
Init ==
    \E s \in ScenarioIds, r \in 0..MaxRounds, v \in Variants :
        /\ variant = v
        /\ nodes = NodesOf(s)
        /\ edges = EdgesOf(s)
        /\ greed = GreedOf(s)
        /\ trust = InitialTrust(NodesOf(s))
        /\ rounds = r
        /\ j = 0
        /\ i = 0
        /\ PINGS_SENT = 0
        /\ PINGS_RCVD = 0
        /\ PONGS_RCVD = 0
        /\ DROP_COUNT = 0
        /\ ping = NoMsg
        /\ pong = NoMsg
        /\ cur = "none"
        /\ holder = 0
        /\ pc = "idle"
        /\ ret = None
        /\ options = Unbound
        /\ fault = "none"
        /\ draw = NoDraw
        /\ stats = [ping |-> Undefined, pong |-> Undefined, overall |-> Undefined]

(***************************************************************************)
(* produce_msg, called by the driver loop on device i.                     *)
(***************************************************************************)
\* destination pool that forgets to leave out the producer
Destinations_all(d) == nodes

\* produce_msg: destinations = [i for i in NETWORK.nodes if i != self.index]
Destinations(d) == {n \in nodes : n # d}

Produce ==
    /\ pc = "idle"
    /\ j < rounds
    /\ IF Destinations(i) = {}
       THEN \* random.choice([]) raises IndexError
            /\ pc' = "fault"
            /\ fault' = "IndexError"
            /\ draw' = NoDraw
            /\ UNCHANGED <<PINGS_SENT, ping, pong, cur, holder, i, j>>
       ELSE \E dst \in Destinations(i) :
            /\ PINGS_SENT' = Inc(PINGS_SENT)
            /\ ping' = Message(i, dst, "ping")
            /\ pong' = NoMsg
            /\ cur' = "ping"
            /\ holder' = i
            /\ pc' = "forward"
            /\ i' = IF i + 1 \in nodes THEN i + 1 ELSE 0
            /\ j' = IF i + 1 \in nodes THEN j ELSE j + 1
            /\ draw' = <<dst>>
            /\ UNCHANGED fault
    /\ UNCHANGED <<variant, nodes, edges, greed, trust, rounds,
                   PINGS_RCVD, PONGS_RCVD, DROP_COUNT, ret, options, stats>>

(***************************************************************************)
(* forward_msg on device holder with message msg.                          *)
(***************************************************************************)
Forward ==
    /\ pc = "forward"
    /\ IF HasEdge(holder, msg.dst)
       THEN /\ SetMsg(Postmark(msg, holder))
            /\ holder' = msg.dst
            /\ pc' = "receive"
            /\ ret' = msg.dst
            /\ options' = Unbound
            /\ draw' = NoDraw
            /\ UNCHANGED fault
       ELSE IF ShortestPathLength(holder, msg.dst) = NoPath
       THEN \* nx.shortest_path_length raises NetworkXNoPath, nothing catches it
            /\ pc' = "fault"
            /\ fault' = "NetworkXNoPath"
            /\ options' = Unbound
            /\ draw' = NoDraw
            /\ UNCHANGED <<ping, pong, holder, ret>>
       ELSE \E opts \in {Options(holder, msg)} :
            IF opts = {}
            THEN \* return None: no postmark, no counter
                 /\ pc' = "idle"
                 /\ ret' = None
                 /\ options' = opts
                 /\ draw' = NoDraw
                 /\ UNCHANGED <<ping, pong, holder, fault>>
            ELSE IF variant = "trusty" /\ (\E p \in {TrustyLogits(holder, opts)} : ChoiceRaises(p))
            THEN \* numpy choice raises ValueError, nothing catches it
                 /\ pc' = "fault"
                 /\ fault' = "ValueError"
                 /\ options' = opts
                 /\ draw' = NoDraw
                 /\ UNCHANGED <<ping, pong, holder, ret>>
            ELSE \E next_hop \in NextHops(holder, opts) :
                 /\ SetMsg(Postmark(msg, holder))
                 /\ holder' = next_hop
                 /\ pc' = "receive"
                 /\ ret' = next_hop
                 /\ options' = opts
                 /\ draw' \in RandomChoices(opts, next_hop)
                 /\ UNCHANGED fault
    /\ UNCHANGED <<variant, nodes, edges, greed, trust, rounds, j, i, cur,
                   PINGS_SENT, PINGS_RCVD, PONGS_RCVD, DROP_COUNT, stats>>

(***************************************************************************)
(* receive_msg on device holder with message msg.                          *)
(***************************************************************************)
\* a reply that is itself a ping
Response_ping(d, m) == Message(d, m.src, "ping")

\* a reply that copies the relay history of the ping it answers
Response_copy(d, m) == [Message(d, m.src, "pong") EXCEPT !.history = m.history]

\* receive_msg: response = Message(self.index, msg.src, "pong")
Response(d, m) == Message(d, m.src, "pong")

Receive ==
    /\ pc = "receive"
    /\ IF holder = msg.dst
       THEN IF msg.content = "ping"
            THEN /\ PINGS_RCVD' = Inc(PINGS_RCVD)
                 /\ pong' = Response(holder, msg)
                 /\ cur' = "pong"
                 /\ pc' = "forward"
                 /\ draw' = NoDraw
                 /\ UNCHANGED <<PONGS_RCVD, DROP_COUNT, ping>>
            ELSE /\ PONGS_RCVD' = Inc(PONGS_RCVD)
                 /\ pc' = "idle"
                 /\ draw' = NoDraw
                 /\ UNCHANGED <<PINGS_RCVD, DROP_COUNT, ping, pong, cur>>
       ELSE \E r \in RandomDraws :
            IF ForwardsOnTrial(r, greed[holder])
            THEN /\ pc' = "forward"
                 /\ draw' = <<r>>
                 /\ UNCHANGED <<PINGS_RCVD, PONGS_RCVD, DROP_COUNT, ping, pong, cur>>
            ELSE /\ DROP_COUNT' = Inc(DROP_COUNT)
                 /\ pc' = "idle"
                 /\ draw' = <<r>>
                 /\ UNCHANGED <<PINGS_RCVD, PONGS_RCVD, ping, pong, cur>>
    /\ UNCHANGED <<variant, nodes, edges, greed, trust, rounds, j, i,
                   PINGS_SENT, holder, ret, options, fault, stats>>

(***************************************************************************)
(* The statistics section after the driver loop.  A ratio is kept as the   *)
(* pair <<numerator, denominator>>; a zero denominator raises              *)
(* ZeroDivisionError, which nothing catches.                               *)
(***************************************************************************)
Ratio(num, den) == <<num, den>>

Statistics ==
    /\ pc = "idle"
    /\ j >= rounds
    /\ draw' = NoDraw
    /\ IF PINGS_SENT = 0 \/ PINGS_RCVD = 0 \/ PINGS_SENT + PINGS_RCVD = 0
       THEN /\ pc' = "fault"
            /\ fault' = "ZeroDivisionError"
            /\ UNCHANGED stats
       ELSE /\ pc' = "done"
            /\ stats' = [ping    |-> Ratio(PINGS_RCVD * Percent, PINGS_SENT),
                         pong    |-> Ratio(PONGS_RCVD * Percent, PINGS_RCVD),
                         overall |-> Ratio((PINGS_SENT + PINGS_RCVD - DROP_COUNT) * Percent,
                                           PINGS_SENT + PINGS_RCVD)]
            /\ UNCHANGED fault
    /\ UNCHANGED <<variant, nodes, edges, greed, trust, rounds, j, i,
                   PINGS_SENT, PINGS_RCVD, PONGS_RCVD, DROP_COUNT,
                   ping, pong, cur, holder, ret, options>>

Next == Produce \/ Forward \/ Receive \/ Statistics

Spec == Init /\ [][Next]_vars

\* The script is one sequential thread that runs until it ends or faults:
\* whenever a step is possible, a step is taken.
FairSpec == Init /\ [][Next]_vars /\ WF_vars(Next)

(***************************************************************************)
(* forward_msg called directly (as a test of the method does) on a device  *)
(* d with a ping that carries a relay history, before the driver loop.     *)
(***************************************************************************)
NoDup(s) == \A a, b \in 1..Len(s) : a # b => s[a] # s[b]

SimpleSeqs(S, n) == UNION {{q \in [1..k -> S] : NoDup(q)} : k \in 0..n}

CallInit ==
    \E s \in ScenarioIds, r \in 0..MaxRounds, v \in Variants :
      \E d \in NodesOf(s) : \E t \in NodesOf(s) \ {d} :
        \E h \in SimpleSeqs(NodesOf(s) \ {d, t}, MaxHist) :
        /\ variant = v
        /\ nodes = NodesOf(s)
        /\ edges = EdgesOf(s)
        /\ greed = GreedOf(s)
        /\ trust = InitialTrust(NodesOf(s))
        /\ rounds = r
        /\ j = 0
        /\ i = 0
        /\ PINGS_SENT = 0
        /\ PINGS_RCVD = 0
        /\ PONGS_RCVD = 0
        /\ DROP_COUNT = 0
        /\ ping = [src |-> IF Len(h) > 0 THEN h[1] ELSE d, dst |-> t,
                   content |-> "ping", history |-> h]
        /\ pong = NoMsg
        /\ cur = "ping"
        /\ holder = d
        /\ pc = "forward"
        /\ ret = None
        /\ options = Unbound
        /\ fault = "none"
        /\ draw = NoDraw
        /\ stats = [ping |-> Undefined, pong |-> Undefined, overall |-> Undefined]

CallSpec == CallInit /\ [][Next]_vars

(***************************************************************************)
(* The trusty program started with trust scores that are not all 0 (every  *)
(* device holds the score sc for one peer t), as a test of the             *)
(* trust-weighted selection sets them.                                     *)
(***************************************************************************)
Scores == {0, 1, MaxScore, ExpOverflow + 1}

SkewedTrust(ns, t, sc) == [n \in ns |-> [u \in ns |-> IF u = t THEN sc ELSE 0]]

SkewedInit ==
    \E s \in ScenarioIds, r \in 0..MaxRounds :
      \E t \in NodesOf(s), sc \in Scores :
        /\ variant = "trusty"
        /\ nodes = NodesOf(s)
        /\ edges = EdgesOf(s)
        /\ greed = GreedOf(s)
        /\ trust = SkewedTrust(NodesOf(s), t, sc)
        /\ rounds = r
        /\ j = 0
        /\ i = 0
        /\ PINGS_SENT = 0
        /\ PINGS_RCVD = 0
        /\ PONGS_RCVD = 0
        /\ DROP_COUNT = 0
        /\ ping = NoMsg
        /\ pong = NoMsg
        /\ cur = "none"
        /\ holder = 0
        /\ pc = "idle"
        /\ ret = None
        /\ options = Unbound
        /\ fault = "none"
        /\ draw = NoDraw
        /\ stats = [ping |-> Undefined, pong |-> Undefined, overall |-> Undefined]

SkewedSpec == SkewedInit /\ [][Next]_vars

(***************************************************************************)
(* Properties.                                                             *)
(***************************************************************************)
Messages == {m \in {ping, pong} : m.content # "none"}

Quiescent == pc \in {"idle", "done"}

GreedFree == \A n \in nodes : greed[n] = 0

Connected == \A a, b \in nodes : ShortestPathLength(a, b) # NoPath

InFlight == pc \in {"forward", "receive"}

ScenarioA == nodes = 0..2 /\ edges = PathGraph /\ GreedFree

ScenarioB ==
    /\ nodes = 0..2
    /\ edges = PathGraph
    /\ greed = [n \in 0..2 |-> IF n = 1 THEN GreedScale ELSE 0]

\* C1: cycle-freedom.  In every reachable state no message history holds a
\* node identifier twice, and the device whose forward_msg or receive_msg
\* is running on a message is not in that message's history.
CycleFreedom ==
    /\ \A m \in Messages : NoDup(m.history)
    /\ pc \in {"forward", "receive"} => holder \notin Range(msg.history)

\* a ping that was relayed twice around filtered paths and then delivered
CycleFreedomWitness ==
    /\ cur = "pong"
    /\ Len(ping.history) >= 3
    /\ \E p \in AllSimplePaths(ping.history[2], ping.dst,
                               Slack + ShortestPathLength(ping.history[2], ping.dst)) :
           ping.history[1] \in Range(p)

\* C2: direct delivery wins.  A forward_msg step on a device that has an
\* edge to msg.dst stamps the message, hands it to the destination's
\* receive_msg and returns msg.dst; the options local is never assigned.
DirectDeliveryWins ==
    [][(pc = "forward" /\ {holder, msg.dst} \in edges)
        => /\ pc' = "receive"
           /\ holder' = msg.dst
           /\ ret' = msg.dst
           /\ options' = Unbound
           /\ cur' = cur
           /\ msg' = [msg EXCEPT !.history = Append(@, holder)]
           /\ fault' = "none"]_vars

\* a relayed message delivered directly by a relay that had other next hops
DirectDeliveryWitness ==
    /\ pc = "receive"
    /\ holder = msg.dst
    /\ ret = msg.dst
    /\ options = Unbound
    /\ Len(msg.history) >= 2
    /\ Cardinality({n \in nodes : {msg.history[Len(msg.history)], n} \in edges}) >= 3

\* C3: reliable delivery without greed.  In a connected topology where
\* every greed is 0: every ping being forwarded is eventually received by
\* its destination (the pong is created), every pong being forwarded is
\* eventually received by the origin, and in quiescent states pings
\* received = pings sent, pongs received = pings received and drops = 0.
\* In Scenario A the ping from 0 to 2 has history <<0, 1>> once delivered.
ReliableWithoutGreed ==
    /\ []((GreedFree /\ Connected /\ Quiescent)
            => /\ PINGS_RCVD = PINGS_SENT
               /\ PONGS_RCVD = PINGS_RCVD
               /\ DROP_COUNT = 0)
    /\ []((ScenarioA /\ cur = "pong" /\ ping.src = 0 /\ ping.dst = 2)
            => ping.history = <<0, 1>>)
    /\ []((GreedFree /\ Connected /\ cur = "pong") => PINGS_RCVD = PINGS_SENT)
    /\ (GreedFree /\ Connected /\ cur = "ping" /\ InFlight)
          ~> (cur = "pong" /\ InFlight)
    /\ (GreedFree /\ Connected /\ cur = "pong" /\ InFlight)
          ~> (cur = "pong" /\ pc = "idle" /\ PONGS_RCVD = PINGS_SENT)

\* Scenario A after the ping from 0 to 2 and its pong both arrived
ReliableWithoutGreedWitness ==
    /\ ScenarioA
    /\ pc = "idle"
    /\ ping.src = 0 /\ ping.dst = 2 /\ ping.history = <<0, 1>>
    /\ pong.src = 2 /\ pong.dst = 0 /\ pong.history = <<2, 1>>
    /\ PONGS_RCVD = PINGS_SENT /\ PINGS_SENT >= 1

\* C4: black hole.  A receive_msg step of a device with greed 1 on a
\* message addressed to another node adds one to the drop counter, leaves
\* the other counters and both messages unchanged and ends the journey
\* (no forward_msg follows).  In Scenario B no step counts a ping between
\* nodes 0 and 2 as received.
BlackHoleDrops ==
    [][/\ (pc = "receive" /\ holder # msg.dst /\ greed[holder] = GreedScale)
            => /\ DROP_COUNT' = DROP_COUNT + 1
               /\ pc' = "idle"
               /\ UNCHANGED <<PINGS_SENT, PINGS_RCVD, PONGS_RCVD, ping, pong, cur>>
       /\ (ScenarioB /\ PINGS_RCVD' # PINGS_RCVD)
            => {msg.src, msg.dst} # {0, 2}]_vars

\* Scenario B after the ping from 0 to 2 was dropped at node 1
BlackHoleWitness ==
    /\ ScenarioB
    /\ pc = "idle"
    /\ ping.src = 0 /\ ping.dst = 2 /\ ping.history = <<0>>
    /\ pong = NoMsg
    /\ holder = 1
    /\ DROP_COUNT >= 1

\* C5 (as claimed): a forward_msg step on a device from which msg.dst is
\* unreachable ends the message as a counted drop and raises no fault.
DisconnectedIsDrop ==
    [][(/\ pc = "forward"
        /\ {holder, msg.dst} \notin edges
        /\ ShortestPathLength(holder, msg.dst) = NoPath)
        => /\ fault' = "none"
           /\ pc' = "idle"
           /\ DROP_COUNT' = DROP_COUNT + 1]_vars

\* C6 (as claimed): a forward_msg step that finds no candidate path left
\* after the history filter ends the journey, adds one to the drop counter
\* and raises no fault.
NoRouteIsCountedDrop ==
    [][(/\ pc = "forward"
        /\ {holder, msg.dst} \notin edges
        /\ ShortestPathLength(holder, msg.dst) # NoPath
        /\ Options(holder, msg) = {})
        => /\ fault' = "none"
           /\ pc' = "idle"
           /\ DROP_COUNT' = DROP_COUNT + 1]_vars

\* C7: destination handling.  A receive_msg step of the device a ping is
\* addressed to adds one to pings received and creates one pong from that
\* device to the ping's src with an empty history, which the same device
\* forwards next; on a pong addressed to it, it adds one to pongs received
\* and the journey ends.  Neither step draws the greed trial: the drop
\* counter is unchanged whatever the device's greed is.
DestinationHandling ==
    [][(pc = "receive" /\ holder = msg.dst)
        => IF msg.content = "ping"
           THEN /\ PINGS_RCVD' = PINGS_RCVD + 1
                /\ pong' = [src |-> holder, dst |-> ping.src,
                            content |-> "pong", history |-> <<>>]
                /\ cur' = "pong"
                /\ pc' = "forward"
                /\ holder' = holder
                /\ UNCHANGED <<ping, PINGS_SENT, PONGS_RCVD, DROP_COUNT>>
           ELSE /\ PONGS_RCVD' = PONGS_RCVD + 1
                /\ pc' = "idle"
                /\ UNCHANGED <<ping, pong, cur, PINGS_SENT, PINGS_RCVD, DROP_COUNT>>]_vars

\* a black hole answered a ping addressed to it and its pong arrived
DestinationHandlingWitness ==
    /\ pc = "idle"
    /\ cur = "pong"
    /\ greed[ping.dst] = GreedScale
    /\ pong.src = ping.dst /\ pong.dst = ping.src
    /\ PINGS_RCVD >= 1 /\ PONGS_RCVD >= 1
    /\ DROP_COUNT = 0

\* C8: no self-destination.  Every message has src # dst and both are
\* nodes of the topology; the step that starts a journey (produce_msg)
\* adds exactly one to pings sent and hands a ping with an empty history
\* from the producing device to another node to forward_msg.
NoSelfDestination ==
    /\ [](\A m \in Messages : m.src # m.dst /\ m.src \in nodes /\ m.dst \in nodes)
    /\ [][(pc = "idle" /\ pc' = "forward")
            => /\ PINGS_SENT' = PINGS_SENT + 1
               /\ ping' = [src |-> i, dst |-> ping'.dst,
                           content |-> "ping", history |-> <<>>]
               /\ ping'.dst \in nodes \ {i}
               /\ holder' = i
               /\ cur' = "ping"]_vars

\* every device of a round has produced and an answering pong was created
NoSelfDestinationWitness ==
    /\ pc = "forward"
    /\ cur = "pong"
    /\ pong.history = <<>>
    /\ pong.src = ping.dst /\ pong.dst = ping.src
    /\ PINGS_SENT = Cardinality(nodes)

\* C9 (as claimed): computing the reliability ratios never raises an
\* arithmetic fault.
MetricsGuarded == fault # "ZeroDivisionError"

\* C10 (as claimed): the history of a message is never longer than the
\* cutoff computed at its origin, shortest_distance(src, dst) + 3.
HopBoundByOriginCutoff ==
    \A m \in Messages :
        ShortestPathLength(m.src, m.dst) # NoPath
            => Len(m.history) <= ShortestPathLength(m.src, m.dst) + Slack

\* C10 (amended): the history of a message is never longer than the number
\* of nodes minus one (no node stamps twice and the destination never
\* stamps); the cutoff is recomputed at every hop from the forwarding
\* device's own distance.
HopBoundByNodeCount ==
    \A m \in Messages : Len(m.history) <= Cardinality(nodes) - 1

\* a delivered ping that took more hops than the cutoff at its origin
HopBoundWitness ==
    /\ cur = "pong"
    /\ Len(ping.history) > ShortestPathLength(ping.src, ping.dst) + Slack
    /\ Len(ping.history) = Cardinality(nodes) - 1

\* the values a step can draw from the `random` module in the current state
DrawValues ==
    {NoDraw} \cup {<<n>> : n \in nodes \cup RandomDraws}
        \cup (IF pc = "forward" /\ msg.dst \in nodes
              THEN AllSimplePaths(holder, msg.dst, Cardinality(nodes))
              ELSE {})

\* C11: counters are monotone.  Each of the four counters is 0 before the
\* driver loop starts, and every step leaves all four unchanged or adds
\* exactly one to exactly one of them.
CountersMonotone ==
    /\ (pc = "idle" /\ cur = "none")
          => <<PINGS_SENT, PINGS_RCVD, PONGS_RCVD, DROP_COUNT>> = <<0, 0, 0, 0>>
    /\ [][LET before == <<PINGS_SENT, PINGS_RCVD, PONGS_RCVD, DROP_COUNT>>
              after  == <<PINGS_SENT', PINGS_RCVD', PONGS_RCVD', DROP_COUNT'>>
          IN  \/ after = before
              \/ \E k \in 1..4 : after = [before EXCEPT ![k] = @ + 1]]_vars

\* each of the four counters has been incremented
CountersMonotoneWitness ==
    /\ PINGS_SENT >= 2
    /\ PINGS_RCVD >= 1
    /\ PONGS_RCVD >= 1
    /\ DROP_COUNT >= 1

\* C12 (as claimed): determinism under a fixed seed of the `random` module.
\* Two runs with the same seed draw the same values from `random`, so they
\* step through the same states iff in every reachable state the values of
\* holder, pc, the messages and the counters after a step are determined by
\* the state and the value the step drew from `random`.
SeedDeterminism ==
    \A dv \in DrawValues :
        /\ \E v \in nodes :
              ~ENABLED (Next /\ draw' = dv /\ holder' # v)
        /\ \E v \in {"idle", "forward", "receive", "done", "fault"} :
              ~ENABLED (Next /\ draw' = dv /\ pc' # v)
        /\ \E v \in {ping, Postmark(ping, holder)} \cup {Message(i, d, "ping") : d \in nodes} :
              ~ENABLED (Next /\ draw' = dv /\ ping' # v)
        /\ \E v \in {pong, Postmark(pong, holder), NoMsg, Response(holder, ping)} :
              ~ENABLED (Next /\ draw' = dv /\ pong' # v)
        /\ \E v \in {0, 1} :
              ~ENABLED (Next /\ draw' = dv /\
                        (PINGS_SENT' - PINGS_SENT) + (PINGS_RCVD' - PINGS_RCVD) +
                        (PONGS_RCVD' - PONGS_RCVD) + (DROP_COUNT' - DROP_COUNT) # v)

\* C13 (as claimed): softmax returns a probability distribution.  Whenever
\* trusty_next_hop is about to run, the weights softmax gives the candidate
\* hops are all finite and > 0 and sum to 1, and equal scores get equal
\* weights.
SoftmaxIsDistribution ==
    (/\ pc = "forward"
     /\ variant = "trusty"
     /\ {holder, msg.dst} \notin edges
     /\ ShortestPathLength(holder, msg.dst) # NoPath
     /\ Options(holder, msg) # {})
    => LET uniq   == Uniq(Options(holder, msg))
           logits == TrustyLogits(holder, Options(holder, msg))
           total  == SumOver(logits, uniq)
       IN  /\ \A t \in uniq : IsFinite(logits[t]) /\ IsPositive(logits[t])
           /\ IsFinite(total) /\ total[1] = total[2]
           /\ \A t, u \in uniq :
                 trust[holder][t] = trust[holder][u] => logits[t] = logits[u]

\* C14 (as claimed): stamping on every outcome.  Every forward_msg step that
\* returns (a next hop or None) appends the forwarding device to the
\* message's history exactly once, and the stamp is there when the next
\* device's receive_msg starts.
StampOnEveryOutcome ==
    [][(pc = "forward" /\ fault' = "none")
        => (IF cur = "pong" THEN pong' ELSE ping') = Postmark(msg, holder)]_vars

MessagesAccounted ==
    pc \notin {"forward", "receive"} => PINGS_SENT = PONGS_RCVD + DROP_COUNT

\* C17: the no-route branch is unreachable when the destination is
\* reachable.  In a run, forward_msg never returns None (the filtered option
\* set it stored is never empty); whenever it is about to filter paths (the
\* device is not adjacent to msg.dst and msg.dst is in its component) the
\* filtered set is non-empty, and if a previous hop relayed the message here
\* then the rest of every path that hop could have chosen through this
\* device is still a candidate within the new cutoff.
NoRouteUnreachable ==
    /\ options # {}
    /\ (/\ pc = "forward"
        /\ ~HasEdge(holder, msg.dst)
        /\ ShortestPathLength(holder, msg.dst) # NoPath)
       => LET opts == Options(holder, msg)
          IN  /\ opts # {}
              /\ msg.history # <<>>
                 => /\ options # Unbound
                    /\ \E p \in options : p[2] = holder
                    /\ \A p \in options : p[2] = holder => Tail(p) \in opts

\* a relayed message at a device that has to filter paths again and has
\* more than one candidate left
NoRouteUnreachableWitness ==
    /\ pc = "forward"
    /\ msg.history # <<>>
    /\ ~HasEdge(holder, msg.dst)
    /\ ShortestPathLength(holder, msg.dst) # NoPath
    /\ Cardinality(Options(holder, msg)) >= 2
    /\ \E p \in options : p[2] = holder /\ Tail(p) \in Options(holder, msg)

\* C18: counter ordering.  In every state, the middle of a journey
\* included, pongs received <= pings received <= pings sent and drops <=
\* pings sent + pings received; a ping still travelling has not been counted
\* as received and a pong still travelling has not been counted, so each
\* ping is received at most once and answered by at most one pong.
CounterOrdering ==
    /\ PONGS_RCVD <= PINGS_RCVD
    /\ PINGS_RCVD <= PINGS_SENT
    /\ DROP_COUNT <= PINGS_SENT + PINGS_RCVD
    /\ (InFlight /\ cur = "ping") => PINGS_RCVD < PINGS_SENT
    /\ (InFlight /\ cur = "pong") => PONGS_RCVD < PINGS_RCVD

\* a pong on its way after an earlier pong was delivered and a message
\* was dropped
CounterOrderingWitness ==
    /\ pc = "receive"
    /\ cur = "pong"
    /\ PONGS_RCVD >= 1
    /\ DROP_COUNT >= 1
    /\ PONGS_RCVD < PINGS_RCVD
    /\ PINGS_RCVD < PINGS_SENT

\* the forward_msg call in progress has to select a relay
Relaying ==
    /\ pc = "forward"
    /\ ~HasEdge(holder, msg.dst)
    /\ ShortestPathLength(holder, msg.dst) # NoPath
    /\ Options(holder, msg) # {}

Travelled(m) ==
    m.history # <<>>
    => /\ m.history[1] = m.src
       /\ \A k \in 1..(Len(m.history) - 1) : HasEdge(m.history[k], m.history[k + 1])
       /\ m.dst \notin Range(m.history)

\* C19: history is the travelled route.  A non-empty history starts with
\* the message's src, consecutive entries are joined by an edge, msg.dst is
\* never in it, and the device holding the message is adjacent to the last
\* entry; every next hop the selection can return is a neighbour of the
\* forwarding device that is neither in the history nor msg.dst.
HistoryIsRoute ==
    /\ \A m \in {ping, pong} \ {NoMsg} : Travelled(m)
    /\ (InFlight /\ msg.history # <<>>)
       => HasEdge(holder, msg.history[Len(msg.history)])
    /\ Relaying
       => \A h \in NextHops(holder, Options(holder, msg)) :
             /\ HasEdge(holder, h)
             /\ h \notin Range(msg.history)
             /\ h # msg.dst

\* a message relayed twice, at a device that selects the third relay
HistoryIsRouteWitness ==
    /\ Relaying
    /\ Len(msg.history) >= 2
    /\ msg.history[1] = msg.src
    /\ HasEdge(holder, msg.history[Len(msg.history)])
    /\ NextHops(holder, Options(holder, msg)) # {}

\* C20: the baseline and the trust-weighted variant allow the same
\* behaviours.  Wherever forward_msg selects a relay, the hops
\* trusty_next_hop can return are the hops the baseline's path choice can
\* yield, the trusty selection raises nothing, and the hops the running
\* program's forward_msg step can go to are exactly these; every other
\* step is the same code in both programs.
VariantsAgree ==
    Relaying
    => \E opts \in {Options(holder, msg)} :
          /\ TrustyNextHop(holder, opts) = BaselineNextHop(opts)
          /\ ~ChoiceRaises(TrustyLogits(holder, opts))
          /\ \A h \in nodes :
                (ENABLED (Forward /\ holder' = h)) <=> h \in BaselineNextHop(opts)

\* the trusty program selecting among several hops, one of them on more
\* than one candidate path
VariantsAgreeWitness ==
    /\ variant = "trusty"
    /\ Relaying
    /\ Cardinality(TrustyNextHop(holder, Options(holder, msg))) >= 2
    /\ Cardinality(Options(holder, msg)) > Cardinality(Uniq(Options(holder, msg)))

====
